---- MODULE Spec2Model ----
(***************************************************************************)
(* A model of Tiffanlord/WebServer.                                        *)
(*                                                                         *)
(* The worker pool (class ThreadPool, src/code/main.cpp lines 35-100): the *)
(* shared Pool state (mtx, cond, isClosed, tasks), the loop run by each    *)
(* detached worker thread, AddTask and the destructor, each split at the   *)
(* points where another thread can interleave (mutex acquisition, unlock,  *)
(* the condition variable's wait). Specifications Spec (a task returns or  *)
(* throws), FairSpec (fair scheduling, tasks return), StallSpec (fair      *)
(* scheduling, running tasks may never finish) and MoveSpec (the owner may *)
(* move the handle and destroy the object moved from).                     *)
(*                                                                         *)
(* The server's event loop (class WebServer, declared in                   *)
(* src/code/server/webserver.h): timer sweep, multiplexer wait, dispatch   *)
(* of read and write tasks. Its member functions are defined outside the   *)
(* sources at hand; the loop follows the design document. Specification    *)
(* ServerSpec.                                                             *)
(*                                                                         *)
(* The timer heap behind the member timer_: an array-backed min-heap with  *)
(* a map from identity to position, after the design document.             *)
(* Specification HeapSpec.                                                 *)
(***************************************************************************)
EXTENDS Integers, Sequences, FiniteSets, TLC

\* ------------------------------------------------------------------ bounds
\* threadCount of the constructor (8 by default, 6 in main); modelled small.
NumWorkers == 2
\* Number of AddTask calls made over the pool's life.
MaxTasks == 3
\* timeoutMS_ (60000 ms in main), in ticks of the model's clock.
TimeoutTicks == 1
\* The clock stops here.
MaxTime == 3
\* Cap on the tasks in flight for one descriptor.
MaxInFlight == 2
\* Number of connection identities that may have a node in the timer heap.
MaxNodes == 3
\* Expiry times and the times pop_expired is called with run from 0 to here.
MaxExpiry == 2

\* ------------------------------------------------------------- identities
Workers == {<<"worker", i>> : i \in 1..NumWorkers}
\* The thread that calls AddTask: the thread that owns the pool (in the
\* server, the event loop's thread; src/code/server/webserver.h line 69).
Callers == {<<"caller", 1>>}
\* The thread that owns the ThreadPool handle and runs its destructor.
Handle == <<"handle", 1>>
\* The mutex is free.
NoThread == <<"none", 1>>
TaskIds == 1..MaxTasks
\* A worker that holds no task.
NoTask == MaxTasks + 1

VARIABLES
    mtx,        \* Pool::mtx: the thread that holds it, or NoThread
    waiters,    \* Pool::cond: the workers blocked in cond.wait
    isClosed,   \* Pool::isClosed
    tasks,      \* Pool::tasks, front first
    pc,         \* each worker's position in the thread function
    cur,        \* each worker's local `task`
    cpc,        \* each caller's position in AddTask
    carg,       \* each caller's argument `task`
    hpc,        \* the handle: under construction, alive, or its destructor's position
    spawned,    \* the constructor's loop variable i: the threads created so far
    mpc,        \* the handle the pool was moved out of: none, null, destroyed
    owners,     \* the holders of a shared_ptr<Pool>: the pool's reference count
    aborted,    \* std::terminate has been called: the process is gone
    nextTask,   \* the next task identity AddTask is called with
    ran,        \* history: how many times each task has been invoked
    threw       \* history: the tasks whose invocation threw

\* The server's event loop (class WebServer, src/code/server/webserver.h).
VARIABLES
    users,      \* users_: the descriptors that have a connection entry
    timer,      \* timer_: each registered descriptor's expiry, or NoTimer
    interest,   \* epoller_: the interest each descriptor is armed for
    readable,   \* the descriptors with bytes to read
    hungUp,     \* the descriptors whose peer has hung up
    inflight,   \* threadpool_: per descriptor, the tasks submitted and not done
    doomed,     \* the connections a task has marked for close
    now,        \* the clock, in ticks
    rpc,        \* the event loop's position: sweep, wait, dispatch
    events,     \* the events the last wait returned, not yet dispatched
    evicted     \* history: the descriptors a timer sweep has closed

\* The timer heap (member timer_, src/code/server/webserver.h line 68).
VARIABLES
    heap,       \* the array of nodes [id, expires], the minimum first
    ref,        \* the side index: each identity's position in the array
    fired,      \* the callbacks the last operation invoked, in order
    hop         \* the last operation and its arguments

poolVars == <<mtx, waiters, isClosed, tasks, pc, cur, cpc, carg, hpc, spawned, mpc,
              owners, aborted, nextTask, ran, threw>>

heapVars == <<heap, ref, fired, hop>>

serverVars == <<users, timer, interest, readable, hungUp, inflight, doomed,
                now, rpc, events, evicted>>

vars == <<poolVars, serverVars, heapVars>>

\* ---------------------------------------------------------- construction
\* Mutant: the closure captures the raw Pool pointer, not the shared_ptr.
CapturedByRawPointer(w) == {}

\* line 45: the closure [pool = pool_] of worker w holds its own copy of the
\* shared_ptr.
CapturedBy(w) == {w}

\* line 40: the member initialiser pool_(std::make_shared<Pool>()) has run.
\* make_shared<Pool>() value-initialises Pool: isClosed is false, the queue
\* empty, the mutex free. The constructor's body is about to run: no thread
\* is created yet.
PoolInit ==
    /\ mtx = NoThread
    /\ waiters = {}
    /\ isClosed = FALSE
    /\ tasks = <<>>
    /\ pc = [w \in Workers |-> "unborn"]
    /\ cur = [w \in Workers |-> NoTask]
    /\ cpc = [c \in Callers |-> "idle"]
    /\ carg = [c \in Callers |-> NoTask]
    /\ hpc = "constructing"
    /\ spawned = 0
    /\ mpc = "none"
    /\ owners = {Handle}
    /\ aborted = FALSE
    /\ nextTask = 1
    /\ ran = [t \in TaskIds |-> 0]
    /\ threw = {}

\* The state of the server after construction: no connection yet.
\* The descriptors of the server's clients: one connection and another that
\* carries unrelated traffic; a closed descriptor may be accepted again.
Conns == {1, 2}

ServerInit ==
    /\ users = {}
    /\ timer = [fd \in {} |-> 0]
    /\ interest = [fd \in Conns |-> "none"]
    /\ readable = {}
    /\ hungUp = {}
    /\ inflight = [fd \in Conns |-> <<>>]
    /\ doomed = {}
    /\ now = 0
    /\ rpc = "sweep"
    /\ events = {}
    /\ evicted = {}

\* The timer heap after construction: empty.
HeapInit ==
    /\ heap = <<>>
    /\ ref = [id \in {} |-> 0]
    /\ fired = <<>>
    /\ hop = [op |-> "none", id |-> 0, t |-> 0]

Init == PoolInit /\ ServerInit /\ HeapInit

\* The Pool object exists as long as one shared_ptr to it does.
PoolAlive == owners # {}

\* ------------------------------------------------------ condition variable
\* Mutant: the notification is forgotten.
NotifyOneDropped == UNCHANGED <<waiters, pc>>

\* Mutant: every waiting worker is woken where one should be.
NotifyOneWakesAll ==
    /\ pc' = [w \in Workers |-> IF w \in waiters THEN "wakeup" ELSE pc[w]]
    /\ waiters' = {}

\* cond.notify_one(): one of the waiting workers, if any, leaves the wait.
NotifyOne ==
    IF waiters = {}
    THEN UNCHANGED <<waiters, pc>>
    ELSE \E w \in waiters :
            /\ waiters' = waiters \ {w}
            /\ pc' = [pc EXCEPT ![w] = "wakeup"]

\* Mutant: the destructor wakes one waiting worker only.
NotifyAllWakesOne ==
    IF waiters = {}
    THEN UNCHANGED <<waiters, pc>>
    ELSE \E w \in waiters :
            /\ waiters' = waiters \ {w}
            /\ pc' = [pc EXCEPT ![w] = "wakeup"]

\* cond.notify_all(): every waiting worker leaves the wait.
NotifyAll ==
    /\ pc' = [w \in Workers |-> IF w \in waiters THEN "wakeup" ELSE pc[w]]
    /\ waiters' = {}

\* ------------------------------------------------------------ constructor
\* Mutant: the loop stops one thread short.
SpawnMoreStopsShort == spawned + 1 < NumWorkers

\* line 43: the loop condition i < threadCount.
SpawnMore == spawned < NumWorkers

\* lines 43-62: one iteration of the constructor's loop creates a detached
\* thread whose closure holds a copy of pool_, and increments i.
CtorSpawn ==
    /\ ~aborted
    /\ hpc = "constructing"
    /\ SpawnMore
    /\ LET w == <<"worker", spawned + 1>> IN
        /\ pc' = [pc EXCEPT ![w] = "start"]
        /\ owners' = owners \cup CapturedBy(w)
    /\ spawned' = spawned + 1
    /\ UNCHANGED <<serverVars, heapVars, mpc, mtx, waiters, isClosed, tasks, cur, cpc, carg, hpc,
                   aborted, nextTask, ran, threw>>

\* lines 43, 64: the loop is over and the constructor returns: the handle
\* is ready for use.
CtorReturn ==
    /\ ~aborted
    /\ hpc = "constructing"
    /\ ~SpawnMore
    /\ hpc' = "alive"
    /\ UNCHANGED <<serverVars, heapVars, spawned, mpc, mtx, waiters, isClosed, tasks, pc, cur, cpc, carg,
                   owners, aborted, nextTask, ran, threw>>

\* ------------------------------------------------------------ worker loop
\* line 46: std::unique_lock<std::mutex> locker(pool->mtx)
WorkerStart(w) ==
    /\ ~aborted
    /\ pc[w] = "start"
    /\ mtx = NoThread
    /\ mtx' = w
    /\ pc' = [pc EXCEPT ![w] = "loop"]
    /\ UNCHANGED <<serverVars, heapVars, spawned, mpc, waiters, isClosed, tasks, cur, cpc, carg, hpc, owners,
                   aborted, nextTask, ran, threw>>

\* Mutant: the front task is taken and never popped.
WorkerDequeueNoPop(w) ==
    /\ ~aborted
    /\ pc[w] = "loop"
    /\ tasks # <<>>
    /\ cur' = [cur EXCEPT ![w] = Head(tasks)]
    /\ pc' = [pc EXCEPT ![w] = "unlock"]
    /\ UNCHANGED <<serverVars, heapVars, spawned, mpc, mtx, waiters, isClosed, tasks, cpc, carg, hpc, owners,
                   aborted, nextTask, ran, threw>>

\* Mutant: the task at the back of the queue is taken.
WorkerDequeueBack(w) ==
    /\ ~aborted
    /\ pc[w] = "loop"
    /\ tasks # <<>>
    /\ cur' = [cur EXCEPT ![w] = tasks[Len(tasks)]]
    /\ tasks' = SubSeq(tasks, 1, Len(tasks) - 1)
    /\ pc' = [pc EXCEPT ![w] = "unlock"]
    /\ UNCHANGED <<serverVars, heapVars, spawned, mpc, mtx, waiters, isClosed, cpc, carg, hpc, owners,
                   aborted, nextTask, ran, threw>>

\* lines 50-52: the queue is not empty: take the front task and pop it.
WorkerDequeue(w) ==
    /\ ~aborted
    /\ pc[w] = "loop"
    /\ tasks # <<>>
    /\ cur' = [cur EXCEPT ![w] = Head(tasks)]
    /\ tasks' = Tail(tasks)
    /\ pc' = [pc EXCEPT ![w] = "unlock"]
    /\ UNCHANGED <<serverVars, heapVars, spawned, mpc, mtx, waiters, isClosed, cpc, carg, hpc, owners, aborted,
                   nextTask, ran, threw>>

\* Mutant: the task is run with the mutex still held.
UnlockBeforeTaskMissing(w) ==
    /\ ~aborted
    /\ pc[w] = "unlock"
    /\ pc' = [pc EXCEPT ![w] = "run"]
    /\ UNCHANGED <<serverVars, heapVars, spawned, mpc, mtx, waiters, isClosed, tasks, cur, cpc, carg, hpc,
                   owners, aborted, nextTask, ran, threw>>

\* line 53: locker.unlock()
UnlockBeforeTask(w) ==
    /\ ~aborted
    /\ pc[w] = "unlock"
    /\ mtx' = NoThread
    /\ pc' = [pc EXCEPT ![w] = "run"]
    /\ UNCHANGED <<serverVars, heapVars, spawned, mpc, waiters, isClosed, tasks, cur, cpc, carg, hpc, owners,
                   aborted, nextTask, ran, threw>>

\* line 54: task() returns.
TaskReturn(w) ==
    /\ ~aborted
    /\ pc[w] = "run"
    /\ ran' = [ran EXCEPT ![cur[w]] = @ + 1]
    /\ cur' = [cur EXCEPT ![w] = NoTask]
    /\ pc' = [pc EXCEPT ![w] = "relock"]
    /\ UNCHANGED <<serverVars, heapVars, spawned, mpc, mtx, waiters, isClosed, tasks, cpc, carg, hpc, owners,
                   aborted, nextTask, threw>>

\* line 54: task() throws. Nothing in the thread function catches it, so the
\* exception leaves the std::thread's function and std::terminate is called.
TaskThrow(w) ==
    /\ ~aborted
    /\ pc[w] = "run"
    /\ ran' = [ran EXCEPT ![cur[w]] = @ + 1]
    /\ threw' = threw \cup {cur[w]}
    /\ cur' = [cur EXCEPT ![w] = NoTask]
    /\ aborted' = TRUE
    /\ UNCHANGED <<serverVars, heapVars, spawned, mpc, mtx, waiters, isClosed, tasks, pc, cpc, carg, hpc,
                   owners, nextTask>>

\* line 55: locker.lock()
WorkerRelock(w) ==
    /\ ~aborted
    /\ pc[w] = "relock"
    /\ mtx = NoThread
    /\ mtx' = w
    /\ pc' = [pc EXCEPT ![w] = "loop"]
    /\ UNCHANGED <<serverVars, heapVars, spawned, mpc, waiters, isClosed, tasks, cur, cpc, carg, hpc, owners,
                   aborted, nextTask, ran, threw>>

\* line 58: the condition under which the loop is left.
BreakCondition == tasks = <<>> /\ isClosed

\* lines 58 and 62: break; locker's destructor unlocks the mutex.
WorkerBreak(w) ==
    /\ ~aborted
    /\ pc[w] = "loop"
    /\ BreakCondition
    /\ mtx' = NoThread
    /\ pc' = [pc EXCEPT ![w] = "return"]
    /\ UNCHANGED <<serverVars, heapVars, spawned, mpc, waiters, isClosed, tasks, cur, cpc, carg, hpc, owners,
                   aborted, nextTask, ran, threw>>

\* line 62: the thread function has returned: its closure, and with it the
\* worker's copy of the shared_ptr, is destroyed.
WorkerExit(w) ==
    /\ ~aborted
    /\ pc[w] = "return"
    /\ owners' = owners \ {w}
    /\ pc' = [pc EXCEPT ![w] = "exited"]
    /\ UNCHANGED <<serverVars, heapVars, spawned, mpc, mtx, waiters, isClosed, tasks, cur, cpc, carg, hpc,
                   aborted, nextTask, ran, threw>>

\* Mutant: the worker waits whatever the queue and the flag hold.
WorkerWaitUnchecked(w) ==
    /\ ~aborted
    /\ pc[w] = "loop"
    /\ mtx' = NoThread
    /\ waiters' = waiters \cup {w}
    /\ pc' = [pc EXCEPT ![w] = "waiting"]
    /\ UNCHANGED <<serverVars, heapVars, spawned, mpc, isClosed, tasks, cur, cpc, carg, hpc, owners,
                   aborted, nextTask, ran, threw>>

\* line 60: the queue is empty and the pool is open: cond.wait(locker)
\* releases the mutex and blocks, atomically.
WorkerWait(w) ==
    /\ ~aborted
    /\ pc[w] = "loop"
    /\ tasks = <<>>
    /\ ~isClosed
    /\ mtx' = NoThread
    /\ waiters' = waiters \cup {w}
    /\ pc' = [pc EXCEPT ![w] = "waiting"]
    /\ UNCHANGED <<serverVars, heapVars, spawned, mpc, isClosed, tasks, cur, cpc, carg, hpc, owners, aborted,
                   nextTask, ran, threw>>

\* line 60: std::condition_variable::wait may wake without a notification.
SpuriousWake(w) ==
    /\ ~aborted
    /\ pc[w] = "waiting"
    /\ waiters' = waiters \ {w}
    /\ pc' = [pc EXCEPT ![w] = "wakeup"]
    /\ UNCHANGED <<serverVars, heapVars, spawned, mpc, mtx, isClosed, tasks, cur, cpc, carg, hpc, owners,
                   aborted, nextTask, ran, threw>>

\* line 60: cond.wait re-acquires the mutex before it returns.
WorkerReacquire(w) ==
    /\ ~aborted
    /\ pc[w] = "wakeup"
    /\ mtx = NoThread
    /\ mtx' = w
    /\ pc' = [pc EXCEPT ![w] = "loop"]
    /\ UNCHANGED <<serverVars, heapVars, spawned, mpc, waiters, isClosed, tasks, cur, cpc, carg, hpc, owners,
                   aborted, nextTask, ran, threw>>

\* ---------------------------------------------------------------- AddTask
\* line 83: a caller enters AddTask(task); the handle is alive.
AddTaskCall(c) ==
    /\ ~aborted
    /\ hpc = "alive"
    /\ cpc[c] = "idle"
    /\ nextTask <= MaxTasks
    /\ carg' = [carg EXCEPT ![c] = nextTask]
    /\ nextTask' = nextTask + 1
    /\ cpc' = [cpc EXCEPT ![c] = "lock"]
    /\ UNCHANGED <<serverVars, heapVars, spawned, mpc, mtx, waiters, isClosed, tasks, pc, cur, hpc, owners,
                   aborted, ran, threw>>

\* Mutant: AddTask goes on to the queue without taking the mutex.
AddTaskLockMissing(c) ==
    /\ ~aborted
    /\ cpc[c] = "lock"
    /\ cpc' = [cpc EXCEPT ![c] = "emplace"]
    /\ UNCHANGED <<serverVars, heapVars, spawned, mpc, mtx, waiters, isClosed, tasks, pc, cur, carg, hpc,
                   owners, aborted, nextTask, ran, threw>>

\* line 85: std::lock_guard<std::mutex> locker(pool_->mtx)
AddTaskLock(c) ==
    /\ ~aborted
    /\ cpc[c] = "lock"
    /\ mtx = NoThread
    /\ mtx' = c
    /\ cpc' = [cpc EXCEPT ![c] = "emplace"]
    /\ UNCHANGED <<serverVars, heapVars, spawned, mpc, waiters, isClosed, tasks, pc, cur, carg, hpc, owners,
                   aborted, nextTask, ran, threw>>

\* line 86: pool_->tasks.emplace(std::forward<F>(task))
AddTaskEmplace(c) ==
    /\ ~aborted
    /\ cpc[c] = "emplace"
    /\ tasks' = Append(tasks, carg[c])
    /\ cpc' = [cpc EXCEPT ![c] = "unlock"]
    /\ UNCHANGED <<serverVars, heapVars, spawned, mpc, mtx, waiters, isClosed, pc, cur, carg, hpc, owners,
                   aborted, nextTask, ran, threw>>

\* line 87: the lock_guard's scope ends.
AddTaskUnlock(c) ==
    /\ ~aborted
    /\ cpc[c] = "unlock"
    /\ mtx' = NoThread
    /\ cpc' = [cpc EXCEPT ![c] = "notify"]
    /\ UNCHANGED <<serverVars, heapVars, spawned, mpc, waiters, isClosed, tasks, pc, cur, carg, hpc, owners,
                   aborted, nextTask, ran, threw>>

\* line 88: pool_->cond.notify_one(); AddTask returns.
AddTaskNotify(c) ==
    /\ ~aborted
    /\ cpc[c] = "notify"
    /\ NotifyOne
    /\ cpc' = [cpc EXCEPT ![c] = "idle"]
    /\ carg' = [carg EXCEPT ![c] = NoTask]
    /\ UNCHANGED <<serverVars, heapVars, spawned, mpc, mtx, isClosed, tasks, cur, hpc, owners, aborted,
                   nextTask, ran, threw>>

\* ------------------------------------------------------------ ~ThreadPool
\* line 71: the owner destroys the handle; no AddTask call is in progress
\* (a member function running on an object under destruction is no call
\* the program may make).
DtorCall ==
    /\ ~aborted
    /\ hpc = "alive"
    /\ \A c \in Callers : cpc[c] = "idle"
    /\ hpc' = "lock"
    /\ UNCHANGED <<serverVars, heapVars, spawned, mpc, mtx, waiters, isClosed, tasks, pc, cur, cpc, carg, owners,
                   aborted, nextTask, ran, threw>>

\* lines 72-74: pool_ is not null; std::lock_guard<std::mutex> locker(pool_->mtx)
DtorLock ==
    /\ ~aborted
    /\ hpc = "lock"
    /\ mtx = NoThread
    /\ mtx' = Handle
    /\ hpc' = "close"
    /\ UNCHANGED <<serverVars, heapVars, spawned, mpc, waiters, isClosed, tasks, pc, cur, cpc, carg, owners,
                   aborted, nextTask, ran, threw>>

\* line 75: pool_->isClosed = true
DtorClose ==
    /\ ~aborted
    /\ hpc = "close"
    /\ isClosed' = TRUE
    /\ hpc' = "unlock"
    /\ UNCHANGED <<serverVars, heapVars, spawned, mpc, mtx, waiters, tasks, pc, cur, cpc, carg, owners, aborted,
                   nextTask, ran, threw>>

\* line 76: the lock_guard's scope ends.
DtorUnlock ==
    /\ ~aborted
    /\ hpc = "unlock"
    /\ mtx' = NoThread
    /\ hpc' = "notify"
    /\ UNCHANGED <<serverVars, heapVars, spawned, mpc, waiters, isClosed, tasks, pc, cur, cpc, carg, owners,
                   aborted, nextTask, ran, threw>>

\* line 77: pool_->cond.notify_all()
DtorNotify ==
    /\ ~aborted
    /\ hpc = "notify"
    /\ NotifyAll
    /\ hpc' = "release"
    /\ UNCHANGED <<serverVars, heapVars, spawned, mpc, mtx, isClosed, tasks, cur, cpc, carg, owners, aborted,
                   nextTask, ran, threw>>

\* line 79: the destructor's body is done; the member pool_ (line 99) is
\* destroyed, which drops the handle's reference to the Pool.
DtorRelease ==
    /\ ~aborted
    /\ hpc = "release"
    /\ owners' = owners \ {Handle}
    /\ hpc' = "destroyed"
    /\ UNCHANGED <<serverVars, heapVars, spawned, mpc, mtx, waiters, isClosed, tasks, pc, cur, cpc, carg,
                   aborted, nextTask, ran, threw>>

\* ---------------------------------------------------------- specification
WorkerStep(w) ==
    \/ WorkerStart(w)
    \/ WorkerDequeue(w)
    \/ UnlockBeforeTask(w)
    \/ TaskReturn(w)
    \/ WorkerRelock(w)
    \/ WorkerBreak(w)
    \/ WorkerExit(w)
    \/ WorkerWait(w)
    \/ SpuriousWake(w)
    \/ WorkerReacquire(w)

CallerStep(c) ==
    \/ AddTaskCall(c)
    \/ AddTaskLock(c)
    \/ AddTaskEmplace(c)
    \/ AddTaskUnlock(c)
    \/ AddTaskNotify(c)

CtorStep ==
    \/ CtorSpawn
    \/ CtorReturn

DtorStep ==
    \/ DtorCall
    \/ DtorLock
    \/ DtorClose
    \/ DtorUnlock
    \/ DtorNotify
    \/ DtorRelease

\* Every task returns.
NextReturn ==
    \/ \E w \in Workers : WorkerStep(w)
    \/ \E c \in Callers : CallerStep(c)
    \/ CtorStep
    \/ DtorStep

\* A task returns or throws.
Next ==
    \/ NextReturn
    \/ \E w \in Workers : TaskThrow(w)

Spec == Init /\ [][Next]_vars   \* the pool

\* ------------------------------------------------------- moved-from handle
\* line 69: ThreadPool(ThreadPool&&) = default. The owner moves the handle
\* into a new object: pool_ goes with it and the member pool_ of the object
\* moved from is null. Handle names whichever object owns the Pool.
MoveHandle ==
    /\ ~aborted
    /\ hpc = "alive"
    /\ mpc = "none"
    /\ \A c \in Callers : cpc[c] = "idle"
    /\ mpc' = "null"
    /\ UNCHANGED <<serverVars, heapVars, spawned, mtx, waiters, isClosed, tasks, pc, cur, cpc, carg, hpc,
                   owners, aborted, nextTask, ran, threw>>

\* Mutant: a handle whose pool_ is null passes the destructor's test.
NullHandleTestWrong == TRUE

\* line 72: static_cast<bool>(pool_), for a handle whose pool_ is null.
NullHandleTest == FALSE

\* lines 71-79, for the handle moved from: the test of line 72 fails and
\* the body is skipped. (Were the test to pass, lines 74-77 would close the
\* pool and wake every worker.)
DtorMovedFrom ==
    /\ ~aborted
    /\ mpc = "null"
    /\ mpc' = "destroyed"
    /\ IF NullHandleTest
       THEN /\ mtx = NoThread
            /\ isClosed' = TRUE
            /\ NotifyAll
       ELSE UNCHANGED <<isClosed, waiters, pc>>
    /\ UNCHANGED <<serverVars, heapVars, spawned, mtx, tasks, cur, cpc, carg, hpc, owners, aborted,
                   nextTask, ran, threw>>

\* The pool, with an owner that may move the handle.
MoveNext ==
    \/ Next
    \/ MoveHandle
    \/ DtorMovedFrom

MoveSpec == Init /\ [][MoveNext]_vars

\* ================================================================ server
\* The event loop of WebServer (declared in src/code/server/webserver.h; its
\* definitions are not among the sources, so the loop follows the design
\* document: sections 4.2, 4.4 and 5). One reactor thread sweeps the timers,
\* waits on the multiplexer and dispatches the events; the pool's workers run
\* the read and write tasks.
\* The timer of descriptor fd is set to expire timeoutMS_ from now.
ExtentTime_(t, fd) == [g \in DOMAIN t \cup {fd} |-> IF g = fd THEN now + TimeoutTicks ELSE t[g]]

\* The timers without those of the descriptors in S.
CancelTimers(t, S) == [g \in DOMAIN t \ S |-> t[g]]

\* Mutant: the sweep pops the minimum once, not while it is expired.
PopExpiredOnce ==
    LET due == {fd \in DOMAIN timer : timer[fd] <= now}
    IN  IF due = {} THEN {}
        ELSE {CHOOSE fd \in due : \A g \in due : timer[fd] <= timer[g]}

\* pop_expired(now): the descriptors whose expiry is <= now.
PopExpired == {fd \in DOMAIN timer : timer[fd] <= now}

\* Eviction is cooperative: a connection with a task in flight is not closed
\* by the sweep; its eviction waits for the task to return.
Evictable == {fd \in PopExpired : inflight[fd] = <<>>}

\* Start(), first half of an iteration: the connections marked for close
\* and the expired idle ones are closed (CloseConn_): the descriptor leaves
\* the multiplexer and the registry, its timer is removed, the socket closed.
SweepTimers ==
    /\ rpc = "sweep"
    /\ LET gone == Evictable \cup doomed
       IN  /\ users' = users \ gone
           /\ timer' = CancelTimers(timer, gone)
           /\ interest' = [fd \in Conns |-> IF fd \in gone THEN "none" ELSE interest[fd]]
           /\ readable' = readable \ gone
           /\ hungUp' = hungUp \ gone
           /\ doomed' = doomed \ gone
           /\ evicted' = evicted \cup Evictable
    /\ rpc' = "wait"
    /\ UNCHANGED <<poolVars, heapVars, inflight, now, events>>

\* Mutant: the interest stays armed after an event (no one-shot).
InterestAfterEventLevel(i) == i

\* Interest is one-shot: an event delivered for a descriptor disarms it, and
\* only the descriptor's task re-arms it when it completes.
InterestAfterEvent(i) == "none"

\* The armed descriptors that are ready, each with its event.
ReadyEvents ==
    {<<fd, "hangup">> : fd \in {g \in users : interest[g] # "none" /\ g \in hungUp}}
    \cup {<<fd, "read">> : fd \in {g \in users : interest[g] = "read" /\ g \in readable /\ g \notin hungUp}}
    \cup {<<fd, "write">> : fd \in {g \in users : interest[g] = "write" /\ g \notin hungUp}}

\* Start(): the multiplexer's wait returns the ready descriptors and the
\* connections to accept, or returns empty when the next timer is due.
EpollWait ==
    /\ rpc = "wait"
    /\ \E acc \in SUBSET (Conns \ users) :
           LET evs == ReadyEvents \cup {<<fd, "accept">> : fd \in acc}
           IN  /\ evs # {} \/ PopExpired # {} \/ doomed # {}
               /\ events' = evs
               /\ interest' = [fd \in Conns |->
                                 IF \E e \in ReadyEvents : e[1] = fd
                                 THEN InterestAfterEvent(interest[fd])
                                 ELSE interest[fd]]
    /\ rpc' = "dispatch"
    /\ UNCHANGED <<poolVars, heapVars, users, timer, readable, hungUp, inflight, doomed,
                   now, evicted>>

\* DealListen_ / AddClient_: the accepted descriptor enters the registry,
\* is registered for read interest and given a fresh timer.
DealListen_(fd) ==
    /\ rpc = "dispatch"
    /\ <<fd, "accept">> \in events
    /\ events' = events \ {<<fd, "accept">>}
    /\ users' = users \cup {fd}
    /\ timer' = ExtentTime_(timer, fd)
    /\ interest' = [interest EXCEPT ![fd] = "read"]
    /\ UNCHANGED <<poolVars, heapVars, readable, hungUp, inflight, doomed, now, rpc,
                   evicted>>

\* A hang-up or error event: CloseConn_.
DealHangup(fd) ==
    /\ rpc = "dispatch"
    /\ <<fd, "hangup">> \in events
    /\ events' = events \ {<<fd, "hangup">>}
    /\ users' = users \ {fd}
    /\ timer' = CancelTimers(timer, {fd})
    /\ interest' = [interest EXCEPT ![fd] = "none"]
    /\ readable' = readable \ {fd}
    /\ hungUp' = hungUp \ {fd}
    /\ doomed' = doomed \ {fd}
    /\ UNCHANGED <<poolVars, heapVars, inflight, now, rpc, evicted>>

\* DealRead_ / DealWrite_: the timer is refreshed (ExtentTime_) and a read or
\* a write task for the connection is submitted to the pool.
DealReadWrite(fd, kind) ==
    /\ rpc = "dispatch"
    /\ <<fd, kind>> \in events
    /\ kind \in {"read", "write"}
    /\ Len(inflight[fd]) < MaxInFlight
    /\ events' = events \ {<<fd, kind>>}
    /\ timer' = ExtentTime_(timer, fd)
    /\ inflight' = [inflight EXCEPT ![fd] = Append(@, kind)]
    /\ UNCHANGED <<poolVars, heapVars, users, interest, readable, hungUp, doomed, now,
                   rpc, evicted>>

\* Start(): every event of the wait is dispatched; the loop starts over.
LoopAgain ==
    /\ rpc = "dispatch"
    /\ events = {}
    /\ rpc' = "sweep"
    /\ UNCHANGED <<poolVars, heapVars, users, timer, interest, readable, hungUp,
                   inflight, doomed, now, events, evicted>>

\* The sequence q without its i-th element.
Without(q, i) == [j \in 1..(Len(q) - 1) |-> IF j < i THEN q[j] ELSE q[j + 1]]

\* OnRead_ / OnWrite_ / OnProcess, run by a worker: the task drains the
\* socket (read) or the response (write) and then re-arms the descriptor for
\* read or for write (next), or marks the connection for close.
TaskDone(fd, i, next) ==
    /\ i \in DOMAIN inflight[fd]
    /\ inflight' = [inflight EXCEPT ![fd] = Without(@, i)]
    /\ readable' = IF inflight[fd][i] = "read" THEN readable \ {fd} ELSE readable
    /\ IF next = "close"
       THEN doomed' = doomed \cup {fd} /\ UNCHANGED interest
       ELSE interest' = [interest EXCEPT ![fd] = next] /\ UNCHANGED doomed
    /\ UNCHANGED <<poolVars, heapVars, users, timer, hungUp, now, rpc, events, evicted>>

\* Bytes arrive on an open connection.
DataArrives(fd) ==
    /\ fd \in users
    /\ fd \notin readable
    /\ readable' = readable \cup {fd}
    /\ UNCHANGED <<poolVars, heapVars, users, timer, interest, hungUp, inflight, doomed,
                   now, rpc, events, evicted>>

\* The peer of an open connection hangs up.
PeerHangsUp(fd) ==
    /\ fd \in users
    /\ fd \notin hungUp
    /\ hungUp' = hungUp \cup {fd}
    /\ UNCHANGED <<poolVars, heapVars, users, timer, interest, readable, inflight,
                   doomed, now, rpc, events, evicted>>

\* Time passes.
Tick ==
    /\ now < MaxTime
    /\ now' = now + 1
    /\ UNCHANGED <<poolVars, heapVars, users, timer, interest, readable, hungUp,
                   inflight, doomed, rpc, events, evicted>>

ServerNext ==
    \/ SweepTimers
    \/ EpollWait
    \/ \E fd \in Conns : DealListen_(fd)
    \/ \E fd \in Conns : DealHangup(fd)
    \/ \E fd \in Conns : \E kind \in {"read", "write"} : DealReadWrite(fd, kind)
    \/ LoopAgain
    \/ \E fd \in Conns : \E i \in 1..MaxInFlight :
           \E next \in {"read", "write", "close"} : TaskDone(fd, i, next)
    \/ \E fd \in Conns : DataArrives(fd)
    \/ \E fd \in Conns : PeerHangsUp(fd)
    \/ Tick

ServerSpec == Init /\ [][ServerNext]_vars

\* ============================================================ timer heap
\* The timer heap behind timer_ (src/code/server/webserver.h line 68). Its
\* class is defined outside the sources at hand; the operations follow the
\* design document: an array-backed binary min-heap on the expiry, with a
\* companion map from identity to array position updated on every swap.
\* A heap value is the pair [h |-> the array, r |-> the map]; positions
\* count from 1, so the parent of position i is i \div 2.
TimerIds == 1..MaxNodes
Times == 0..MaxExpiry

\* Mutant: a swap exchanges the nodes and leaves the map as it was.
SwapNodeStaleIndex(s, i, j) ==
    [h |-> [s.h EXCEPT ![i] = s.h[j], ![j] = s.h[i]], r |-> s.r]

\* Exchange the nodes at positions i and j and record their new positions.
SwapNode(s, i, j) ==
    [h |-> [s.h EXCEPT ![i] = s.h[j], ![j] = s.h[i]],
     r |-> [s.r EXCEPT ![s.h[i].id] = j, ![s.h[j].id] = i]]

\* Move the node at position i up while it expires before its parent.
RECURSIVE SiftUp(_, _)
SiftUp(s, i) ==
    IF i = 1
    THEN s
    ELSE LET parent == i \div 2 IN
         IF s.h[parent].expires <= s.h[i].expires
         THEN s
         ELSE SiftUp(SwapNode(s, i, parent), parent)

\* Move the node at position i down while a child expires before it.
RECURSIVE SiftDown(_, _)
SiftDown(s, i) ==
    LET n == Len(s.h)
        left == 2 * i
        right == 2 * i + 1
        child == IF right <= n /\ s.h[right].expires < s.h[left].expires
                 THEN right ELSE left
    IN  IF left > n
        THEN s
        ELSE IF s.h[i].expires <= s.h[child].expires
             THEN s
             ELSE SiftDown(SwapNode(s, i, child), child)

\* Re-heapify around position i: down, and up if it did not move down.
Resift(s, i) ==
    LET down == SiftDown(s, i) IN
    IF down = s THEN SiftUp(s, i) ELSE down

\* Mutant: refresh changes the expiry and leaves the node where it is.
RefreshInPlace(s, id, e) ==
    [h |-> [s.h EXCEPT ![s.r[id]].expires = e], r |-> s.r]

\* refresh(identity, delay): find the node through the map, change its
\* expiry, re-heapify.
Refresh(s, id, e) ==
    Resift([h |-> [s.h EXCEPT ![s.r[id]].expires = e], r |-> s.r], s.r[id])

\* insert(identity, delay, callback): a new node at the end of the array,
\* sifted up. An identity has one node at most: for an identity that has
\* one, the node is updated.
Insert(s, id, e) ==
    IF id \in DOMAIN s.r
    THEN Refresh(s, id, e)
    ELSE LET n == Len(s.h) + 1 IN
         SiftUp([h |-> Append(s.h, [id |-> id, expires |-> e]),
                 r |-> [k \in DOMAIN s.r \cup {id} |->
                          IF k = id THEN n ELSE s.r[k]]], n)

\* The heap without its last node.
DropLast(s) ==
    LET n == Len(s.h) IN
    [h |-> SubSeq(s.h, 1, n - 1),
     r |-> [k \in DOMAIN s.r \ {s.h[n].id} |-> s.r[k]]]

\* Mutant: the replacement is left where the swap put it.
RemoveAtNoSift(s, i) ==
    IF i = Len(s.h) THEN DropLast(s) ELSE DropLast(SwapNode(s, i, Len(s.h)))

\* Remove the node at position i: swap it to the last position, drop it,
\* sift the replacement into place.
RemoveAt(s, i) ==
    IF i = Len(s.h)
    THEN DropLast(s)
    ELSE Resift(DropLast(SwapNode(s, i, Len(s.h))), i)

\* remove(identity)
Remove(s, id) == RemoveAt(s, s.r[id])

\* A node is due at time t when its expiry is at or before t.
Due(e, t) == e <= t

\* pop_expired(now): pop the minimum while it is due, invoking its callback;
\* out is the sequence of the nodes whose callbacks have run.
RECURSIVE PopWhileDue(_, _, _)
PopWhileDue(s, t, out) ==
    IF s.h = <<>> \/ ~Due(s.h[1].expires, t)
    THEN [heap |-> s, out |-> out]
    ELSE PopWhileDue(RemoveAt(s, 1), t, Append(out, s.h[1]))

\* The heap as a value.
TheHeap == [h |-> heap, r |-> ref]

\* Each operation invokes no callback but pop_expired.
HeapInsert ==
    \E id \in TimerIds, e \in Times :
        LET s == Insert(TheHeap, id, e) IN
        /\ heap' = s.h
        /\ ref' = s.r
        /\ fired' = <<>>
        /\ hop' = [op |-> "insert", id |-> id, t |-> e]
        /\ UNCHANGED <<poolVars, serverVars>>

HeapRefresh ==
    \E id \in DOMAIN ref, e \in Times :
        LET s == Refresh(TheHeap, id, e) IN
        /\ heap' = s.h
        /\ ref' = s.r
        /\ fired' = <<>>
        /\ hop' = [op |-> "refresh", id |-> id, t |-> e]
        /\ UNCHANGED <<poolVars, serverVars>>

HeapRemove ==
    \E id \in DOMAIN ref :
        LET s == Remove(TheHeap, id) IN
        /\ heap' = s.h
        /\ ref' = s.r
        /\ fired' = <<>>
        /\ hop' = [op |-> "remove", id |-> id, t |-> 0]
        /\ UNCHANGED <<poolVars, serverVars>>

HeapPopExpired ==
    \E t \in Times :
        LET p == PopWhileDue(TheHeap, t, <<>>) IN
        /\ heap' = p.heap.h
        /\ ref' = p.heap.r
        /\ fired' = p.out
        /\ hop' = [op |-> "pop_expired", id |-> 0, t |-> t]
        /\ UNCHANGED <<poolVars, serverVars>>

HeapNext ==
    \/ HeapInsert
    \/ HeapRefresh
    \/ HeapRemove
    \/ HeapPopExpired

HeapSpec == Init /\ [][HeapNext]_vars

\* =============================================================== fairness
\* Fair scheduling of the threads: a thread that can again and again take
\* its next step takes it; in particular a thread that asks for the mutex
\* gets it if the mutex is free again and again. Nothing obliges a caller to
\* call AddTask, the owner to destroy the handle, a wait to wake spuriously,
\* or (here) a task to finish.
WorkerFairness(w) ==
    SF_vars(WorkerStart(w) \/ WorkerDequeue(w) \/ UnlockBeforeTask(w)
              \/ WorkerRelock(w) \/ WorkerBreak(w) \/ WorkerExit(w)
              \/ WorkerWait(w) \/ WorkerReacquire(w))

CallerFairness(c) ==
    SF_vars(AddTaskLock(c) \/ AddTaskEmplace(c) \/ AddTaskUnlock(c)
              \/ AddTaskNotify(c))

DtorFairness ==
    SF_vars(CtorSpawn \/ CtorReturn
              \/ DtorLock \/ DtorClose \/ DtorUnlock \/ DtorNotify \/ DtorRelease)

ThreadFairness ==
    /\ \A w \in Workers : WorkerFairness(w)
    /\ \A c \in Callers : CallerFairness(c)
    /\ DtorFairness

\* Threads are scheduled fairly and every task returns.
FairSpec ==
    /\ Init /\ [][NextReturn]_vars
    /\ ThreadFairness
    /\ \A w \in Workers : WF_vars(TaskReturn(w))

\* Threads are scheduled fairly; a running task may never finish.
StallSpec == Init /\ [][NextReturn]_vars /\ ThreadFairness

\* ------------------------------------------------------------ definitions
\* The number of places of the queue that hold task t.
InQueue(t) == Cardinality({i \in DOMAIN tasks : tasks[i] = t})

\* The number of workers whose local `task` is t.
HeldBy(t) == Cardinality({w \in Workers : cur[w] = t})

\* AddTask has placed t in the queue (line 86 has run for it).
Enqueued(t) ==
    /\ t < nextTask
    /\ \A c \in Callers : carg[c] = t => cpc[c] \in {"unlock", "notify"}

\* ------------------------------------------------------------------ C1
\* C1: no task is lost or duplicated. A task that AddTask has placed in the
\* queue is, at every moment, in exactly one place: once in the queue, or in
\* the hands of one worker (dequeued, being run), or invoked once. A task not
\* yet placed in the queue is in none of them.
C1_NoTaskLostOrDuplicated ==
    \A t \in TaskIds :
        InQueue(t) + HeldBy(t) + ran[t] = (IF Enqueued(t) THEN 1 ELSE 0)

\* Every task has been placed in the queue, dequeued and invoked, and both
\* kinds of thread interleaved: a worker ran a task while a caller enqueued.
C1_Witness ==
    /\ \A t \in TaskIds : ran[t] = 1
    /\ \A w \in Workers : pc[w] \in {"relock", "loop", "waiting", "wakeup"}

\* ------------------------------------------------------------------ C2
\* C2: under fair scheduling and with tasks that return, every task AddTask
\* is called with is eventually invoked, whatever the workers were doing when
\* it was submitted (busy, or all waiting on the condition variable).
C2_EveryTaskEventuallyRuns ==
    \A t \in TaskIds : (t < nextTask) ~> (ran[t] = 1)

\* A task is in the queue while every worker waits on the condition variable.
C2_Witness ==
    /\ tasks # <<>>
    /\ \A w \in Workers : pc[w] = "waiting"

\* ------------------------------------------------------------------ C3
\* The pool's threads have stopped: each has left its loop, or the process
\* has been terminated.
PoolStopped == aborted \/ \A w \in Workers : pc[w] \in {"return", "exited"}

\* C3: shutdown drains the queue: no worker has left its loop while the queue
\* holds a task, and once the pool is closed and its threads have stopped,
\* every task that was placed in the queue has been invoked.
C3_ShutdownDrainsQueue ==
    /\ \A w \in Workers : pc[w] \in {"return", "exited"} => tasks = <<>>
    /\ (isClosed /\ PoolStopped) =>
            \A t \in TaskIds : Enqueued(t) => ran[t] = 1

\* ------------------------------------------------------------------ C4
\* C4: under fair scheduling and with tasks that return, once isClosed is
\* set every worker leaves its loop and its thread ends.
C4_ClosedWorkersExit ==
    isClosed ~> (\A w \in Workers : pc[w] = "exited")

\* isClosed has just been set while one worker waits on the condition
\* variable and another runs a task.
C4_Witness ==
    /\ isClosed
    /\ \E w \in Workers : pc[w] = "waiting"
    /\ \E w \in Workers : pc[w] = "run"

\* ------------------------------------------------------------------ C5
\* C5: a task is run with no pool lock held: a worker that is executing a
\* task does not hold the pool mutex.
C5_TaskRunsUnlocked ==
    \A w \in Workers : pc[w] = "run" => mtx # w

\* While one worker runs a task, a caller holds the mutex and has enqueued,
\* and another worker has dequeued.
C5_Witness ==
    \E w \in Workers :
        /\ pc[w] = "run"
        /\ \E c \in Callers : mtx = c /\ cpc[c] = "unlock"
        /\ \E v \in Workers \ {w} : pc[v] = "run"

\* ------------------------------------------------------------------ C6
\* The queue grows only by AddTask's emplace, made by the caller that holds
\* the mutex, which appends that caller's task.
AppendsUnderLock ==
    Len(tasks') > Len(tasks) =>
        \E c \in Callers :
            /\ mtx = c /\ mtx' = c
            /\ cpc[c] = "emplace"
            /\ tasks' = Append(tasks, carg[c])

\* AddTask's notification wakes exactly one of the waiting workers when
\* there is one, and changes nothing when there is none.
WakesExactlyOne ==
    \A c \in Callers :
        (cpc[c] = "notify" /\ cpc'[c] = "idle") =>
            IF waiters = {}
            THEN waiters' = {} /\ pc' = pc
            ELSE \E w \in waiters :
                    /\ waiters' = waiters \ {w}
                    /\ pc' = [pc EXCEPT ![w] = "wakeup"]

\* C6: AddTask appends the task under the pool's lock, wakes exactly one
\* idle worker, and returns even if the running tasks never finish.
C6_AddTaskNeverBlocks ==
    /\ [][AppendsUnderLock]_vars
    /\ [][WakesExactlyOne]_vars
    /\ \A c \in Callers : (cpc[c] # "idle") ~> (cpc[c] = "idle")

\* A caller is about to notify, having enqueued, while one worker waits and
\* another runs a task.
C6_Witness ==
    \E c \in Callers :
        /\ cpc[c] = "notify"
        /\ \E w \in Workers : pc[w] = "waiting"
        /\ \E w \in Workers : pc[w] = "run"

\* ------------------------------------------------------------------ C7
\* C7: a task that throws is an error for that task only: the pool is not
\* terminated by it, the mutex is not left locked by its worker, and the
\* worker goes on to take the remaining tasks.
C7_TaskFailureIsolated ==
    threw # {} =>
        /\ ~aborted
        /\ \A w \in Workers : pc[w] = "run" => mtx # w

\* ------------------------------------------------------------------ C9
\* C9: at most one task per connection: whatever read-ready and write-ready
\* events arrive for a descriptor, at most one task that references its
\* connection is in flight in the pool.
C9_OneTaskPerConnection ==
    \A fd \in Conns : Len(inflight[fd]) <= 1

\* A write task of a connection is in flight while the descriptor is
\* read-ready (bytes have arrived) and write-ready.
C9_Witness ==
    \E fd \in users :
        /\ inflight[fd] = <<"write">>
        /\ fd \in readable

\* ----------------------------------------------------------------- C10
\* The event loop's timer sweep.
IsSweep == rpc = "sweep" /\ rpc' = "wait"

C8_PoolOutlivesHandle ==
    \A w \in Workers : pc[w] # "exited" => PoolAlive

\* The handle is destroyed while a task is in flight and another is queued.
C8_Witness ==
    /\ hpc = "destroyed"
    /\ tasks # <<>>
    /\ \E w \in Workers : pc[w] = "run"

\* ------------------------------------------------------------------ C13
\* C13: tasks leave the queue in the order they entered it. The single
\* caller's AddTask calls complete one after the other, in the order of the
\* task identities; so whenever a task b has left the queue, every task a
\* whose enqueue completed before b's has left it too, whatever the number
\* of workers.
C13_FifoDequeue ==
    \A a, b \in TaskIds :
        (a < b /\ Enqueued(b) /\ InQueue(b) = 0) => InQueue(a) = 0

\* A worker has taken a task while two later ones wait in the queue.
C13_Witness ==
    /\ Len(tasks) >= 2
    /\ \E w \in Workers : cur[w] # NoTask /\ cur[w] < tasks[1]

\* ------------------------------------------------------------------ C14
\* C14: a worker enters the condition variable's wait only when the queue is
\* empty and the pool is not closed: no step takes a worker into the wait
\* from a state where a task is queued or isClosed is true.
C14_WaitOnlyWhenIdle ==
    [][\A w \in Workers :
          (pc[w] # "waiting" /\ pc'[w] = "waiting")
              => (tasks = <<>> /\ ~isClosed)]_vars

\* A worker that has run a task is back in the wait.
C14_Witness ==
    /\ \E w \in Workers : pc[w] = "waiting" /\ w \in waiters
    /\ \E t \in TaskIds : ran[t] = 1

\* ------------------------------------------------------------------ C15
\* The worker threads created so far.
Created == {w \in Workers : pc[w] # "unborn"}

\* The workers that are running a task.
Running == {w \in Workers : pc[w] = "run"}

\* C15: the pool's size is fixed at construction. Once the constructor has
\* returned, exactly threadCount worker threads have been created; no step
\* after that creates one; and at no time do more than threadCount tasks
\* execute at once.
C15_PoolSizeFixed ==
    /\ [](/\ Cardinality(Created) = spawned
          /\ hpc # "constructing" => spawned = NumWorkers
          /\ Cardinality(Running) <= NumWorkers)
    /\ [][hpc # "constructing" => (spawned' = spawned /\ Created' = Created)]_vars

\* Every worker of the pool runs a task at the same time.
C15_Witness ==
    /\ hpc # "constructing"
    /\ Running = Workers

\* ------------------------------------------------------------------ C17
\* The threads that are between taking the mutex and releasing it.
InCriticalSection ==
    {w \in Workers : pc[w] \in {"loop", "unlock"}}
        \cup {c \in Callers : cpc[c] \in {"emplace", "unlock"}}
        \cup (IF hpc \in {"close", "unlock"} THEN {Handle} ELSE {})

\* C17: the queue and the closed flag are accessed under the mutex only, and
\* the mutex has one holder at most. A thread at a position where it reads
\* or writes tasks or isClosed (a worker at the loop's tests and the
\* dequeue, AddTask at the emplace, the destructor at the assignment) is the
\* holder of the mutex; no two threads are at such positions together; and
\* a step that changes tasks or isClosed is taken with the mutex held, and
\* kept.
C17_QueueUnderMutex ==
    /\ [](/\ \A t \in InCriticalSection : mtx = t
          /\ Cardinality(InCriticalSection) <= 1)
    /\ [][(tasks' # tasks \/ isClosed' # isClosed)
              => (mtx # NoThread /\ mtx' = mtx /\ mtx \in InCriticalSection)]_vars

\* AddTask holds the mutex at the emplace while a worker that has finished a
\* task asks for it.
C17_Witness ==
    /\ \E c \in Callers : cpc[c] = "emplace" /\ mtx = c
    /\ \E w \in Workers : pc[w] = "relock"

\* ------------------------------------------------------------------ C18
\* C18: shutdown happens once and cannot be undone. isClosed is false from
\* construction until the destructor of the handle that owns the Pool has
\* run line 75; only that step sets it; no step clears it; and the
\* destruction of a handle whose pool_ is null changes nothing of the Pool
\* and wakes no worker.
C18_ShutdownOnceIrreversible ==
    /\ [](isClosed => hpc \in {"unlock", "notify", "release", "destroyed"})
    /\ [][(isClosed' # isClosed)
              => (~isClosed /\ hpc = "close" /\ hpc' = "unlock")]_vars
    /\ [][(mpc = "null" /\ mpc' = "destroyed")
              => UNCHANGED <<mtx, waiters, isClosed, tasks, pc, cur, owners>>]_vars

\* The handle moved from is destroyed while a worker waits in an open pool,
\* and the worker goes on waiting.
C18_Witness ==
    /\ mpc = "destroyed"
    /\ hpc = "alive"
    /\ ~isClosed
    /\ waiters # {}

\* ------------------------------------------------------------------ C11
\* The nodes of an array, as a set.
Nodes(h) == {h[i] : i \in DOMAIN h}

\* The expiries of a sequence of nodes never decrease.
NonDecreasing(q) ==
    \A i, j \in DOMAIN q : i < j => q[i].expires <= q[j].expires

\* C11: pop_expired(now) removes, and runs the callbacks of, exactly the
\* nodes whose expiry is at or before now, in non-decreasing order of
\* expiry, each once, and leaves every node that expires after now in the
\* heap; refresh gives the node the new expiry, which is the one that
\* counts, so a node refreshed to a time after now is not popped.
C11_PopExpiredExact ==
    /\ [][hop'.op = "pop_expired" =>
            LET due == {n \in Nodes(heap) : n.expires <= hop'.t} IN
            /\ Nodes(fired') = due
            /\ Len(fired') = Cardinality(due)
            /\ NonDecreasing(fired')
            /\ Nodes(heap') = Nodes(heap) \ due
            /\ Len(heap') = Len(heap) - Cardinality(due)]_vars
    /\ [][hop'.op = "refresh" =>
            /\ [id |-> hop'.id, expires |-> hop'.t] \in Nodes(heap')
            /\ \A n \in Nodes(heap) : n.id # hop'.id => n \in Nodes(heap')
            /\ Len(heap') = Len(heap)]_vars

\* pop_expired has run two callbacks, of different expiries, and left a
\* node in the heap.
C11_Witness ==
    /\ hop.op = "pop_expired"
    /\ Len(fired) >= 2
    /\ fired[1].expires < fired[2].expires
    /\ heap # <<>>
    /\ \A i \in DOMAIN heap : heap[i].expires > hop.t

\* ------------------------------------------------------------------ C12
\* Repeated pop-min: the nodes in the order they leave the heap.
RECURSIVE Drain(_)
Drain(s) ==
    IF s.h = <<>> THEN <<>> ELSE <<s.h[1]>> \o Drain(RemoveAt(s, 1))

C16_IndexNamesPosition ==
    /\ DOMAIN ref = {heap[i].id : i \in DOMAIN heap}
    /\ \A i \in DOMAIN heap : ref[heap[i].id] = i
    /\ Cardinality(DOMAIN ref) = Len(heap)

\* A full heap whose nodes have been moved by sifting: the identities are
\* not in the order of the positions.
C16_Witness ==
    /\ Len(heap) = MaxNodes
    /\ \E i, j \in DOMAIN heap : i < j /\ heap[i].id > heap[j].id
    /\ hop.op \in {"refresh", "remove", "pop_expired"}

====
